---- MODULE Spec2Model ----
(***************************************************************************)
(* Model of node_manager_daemon_fkie/screen.py: the screen session name    *)
(* codec, the parser of the `screen -ls` listing, the writer of the screen *)
(* configuration file and the removal of a node's log artifacts.           *)
(*                                                                         *)
(* Python strings are sequences of one-character strings, so that          *)
(* str.replace, str.split, str.strip and int() are computed character by   *)
(* character.  None is the one-element sequence <<"None">>, which no       *)
(* string over the alphabets below equals.                                 *)
(***************************************************************************)
EXTENDS Integers, Sequences, FiniteSets, TLC

VARIABLES
    pc,            \* position of the caller: which call has returned
    node,          \* argument `node` / `nodename` of the current call
    session,       \* value returned by create_session_name(node)
    prev_node,     \* argument of the preceding create_session_name call
    prev_session,  \* value returned by the preceding create_session_name call
    node_name,     \* value returned by session_name2node_name(session)
    line,          \* argument of split_session_name
    split_result,  \* value returned by split_session_name(line)
    output,        \* text read from `screen -ls`, as a sequence of lines
    screens,       \* dictionary returned by get_active_screens
    keys,          \* argument `keys` of get_cmd
    env,           \* argument `env` of get_cmd (a dictionary)
    environ,       \* os.environ of the daemon
    logdir,        \* state of the directory LOG_PATH
    openable,      \* whether open(filename, 'w') succeeds in an existing LOG_PATH
    cfg,           \* content of the configuration file, as a sequence of lines
    trace,         \* system calls made by get_cmd, and by each delete_log call
    raised,        \* exception that left the current call
    cmd,           \* value returned by get_cmd
    node2,         \* name of a second node with artifacts in LOG_PATH
    fs,            \* files below LOG_PATH: path -> "file" | "dir" | "none"
    fs0,           \* fs before the current call of delete_log
    calls,         \* number of delete_log calls made
    registry,      \* sessions of the screen program: pid -> [node, fragment]
    next_pid       \* pid the operating system gives to the next session

vars == <<pc, node, session, prev_node, prev_session, node_name, line,
          split_result, output, screens, keys, env, environ, logdir, openable,
          cfg, trace, raised, cmd, node2, fs, fs0, calls, registry, next_pid>>

codecVars == <<session, prev_node, prev_session, node_name>>
splitVars == <<line, split_result>>
screenVars == <<output, screens>>
cmdVars == <<keys, env, environ, logdir, openable, cfg, trace, raised, cmd>>
cleanVars == <<node2, fs, fs0, calls>>
sessionVars == <<registry, next_pid>>

----------------------------------------------------------------------------
(* Bounds *)

MaxLen == 3
MaxLineLen == 4
MaxLines == 2
MaxKeys == 2
MaxCalls == 2
MaxPairLen == 3
MaxSessions == 2
MaxSessLen == 2

----------------------------------------------------------------------------
(* Python values and string methods *)

None == <<"None">>
EmptyStr == <<>>

RECURSIVE SeqsUpTo(_, _)
SeqsUpTo(S, n) ==
    IF n = 0 THEN {<<>>}
    ELSE LET shorter == SeqsUpTo(S, n - 1)
         IN  shorter \cup {Append(s, c) : s \in shorter, c \in S}

StartsWith(s, prefix) ==
    /\ Len(s) >= Len(prefix)
    /\ SubSeq(s, 1, Len(prefix)) = prefix

\* s.replace(old, new): occurrences are found left to right, without overlap
RECURSIVE Replace(_, _, _)
Replace(s, old, new) ==
    IF Len(s) < Len(old) THEN s
    ELSE IF StartsWith(s, old)
         THEN new \o Replace(SubSeq(s, Len(old) + 1, Len(s)), old, new)
         ELSE <<Head(s)>> \o Replace(Tail(s), old, new)

RECURSIVE LStrip(_, _)
LStrip(s, chars) ==
    IF s # <<>> /\ Head(s) \in chars THEN LStrip(Tail(s), chars) ELSE s

RECURSIVE RStrip(_, _)
RStrip(s, chars) ==
    IF s # <<>> /\ s[Len(s)] \in chars
    THEN RStrip(SubSeq(s, 1, Len(s) - 1), chars)
    ELSE s

\* s.strip(chars)
Strip(s, chars) == RStrip(LStrip(s, chars), chars)

\* the characters str.strip() removes
Whitespace == {" ", "\t", "\n", "\r", "\f"}

\* position of the first occurrence of character c in s, 0 when absent
RECURSIVE Find(_, _, _)
Find(s, c, i) ==
    IF i > Len(s) THEN 0
    ELSE IF s[i] = c THEN i
    ELSE Find(s, c, i + 1)

\* s.split(c, 1): at most one split, at the first c
Split1(s, c) ==
    LET i == Find(s, c, 1)
    IN  IF i = 0 THEN <<s>>
        ELSE <<SubSeq(s, 1, i - 1), SubSeq(s, i + 1, Len(s))>>

\* s.split(c)[0]: the text before the first c, the whole of s without one
SplitFirst(s, c) ==
    LET i == Find(s, c, 1)
    IN  IF i = 0 THEN s ELSE SubSeq(s, 1, i - 1)

----------------------------------------------------------------------------
(* Name codec *)

SLASH_SEP == "_"

\* rospy.names.ns_join(ns, name) as called with ns = '/'
ns_join(ns, name) ==
    IF name # <<>> /\ Head(name) \in {"~", "/"} THEN name
    ELSE IF ns = <<"~">> THEN <<"~">> \o name
    ELSE IF ns = <<>> THEN name
    ELSE IF ns[Len(ns)] = "/" THEN ns \o name
    ELSE ns \o <<"/">> \o name

create_session_name_falsy(n) ==
    IF n = None \/ n = EmptyStr THEN EmptyStr
    ELSE Replace(Replace(ns_join(<<"/">>, n), <<SLASH_SEP>>, <<SLASH_SEP, SLASH_SEP>>),
                 <<"/">>, <<SLASH_SEP>>)

create_session_name(n) ==
    IF n = None THEN EmptyStr
    ELSE LET result == Replace(ns_join(<<"/">>, n), <<SLASH_SEP>>,
                               <<SLASH_SEP, SLASH_SEP>>)
         IN  Replace(result, <<"/">>, <<SLASH_SEP>>)

session_name2node_name(s) ==
    LET n1 == Replace(s, <<SLASH_SEP, SLASH_SEP>>, <<"/", "/">>)
        n2 == Replace(n1, <<SLASH_SEP>>, <<"/">>)
    IN  Replace(n2, <<"/", "/">>, <<SLASH_SEP>>)

NameChars == {"/", "_", "a", "~"}
Names == SeqsUpTo(NameChars, MaxLen)
NodeArgs == Names \cup {None}

----------------------------------------------------------------------------
(* Session lines of `screen -ls` *)

\* a Python value that is an int, and one that is a str
PyInt(i) == [int |-> i]
PyStr(s) == [str |-> s]

Digits == <<"0", "1", "2", "3", "4", "5", "6", "7", "8", "9">>
DigitChars == {Digits[i] : i \in 1..Len(Digits)}
DigitValue(c) == (CHOOSE i \in 1..Len(Digits) : Digits[i] = c) - 1

RECURSIVE DigitsValue(_, _)
DigitsValue(s, acc) ==
    IF s = <<>> THEN acc
    ELSE DigitsValue(Tail(s), acc * 10 + DigitValue(Head(s)))

\* int(s) succeeds: optional blanks around an optional sign and decimal digits
IsIntLiteral(s) ==
    LET t == Strip(s, Whitespace)
        d == IF t # <<>> /\ Head(t) \in {"-", "+"} THEN Tail(t) ELSE t
    IN  /\ d # <<>>
        /\ \A i \in 1..Len(d) : d[i] \in DigitChars

\* the value of int(s) when it succeeds
IntValue(s) ==
    LET t == Strip(s, Whitespace)
    IN  IF Head(t) = "-" THEN 0 - DigitsValue(Tail(t), 0)
        ELSE IF Head(t) = "+" THEN DigitsValue(Tail(t), 0)
        ELSE DigitsValue(t, 0)

\* '%d' % i
RECURSIVE FormatD(_)
FormatD(i) ==
    IF i < 0 THEN <<"-">> \o FormatD(0 - i)
    ELSE IF i < 10 THEN <<Digits[i + 1]>>
    ELSE FormatD(i \div 10) \o <<Digits[(i % 10) + 1]>>

split_session_name(s) ==
    IF s = None THEN <<PyStr(EmptyStr), EmptyStr>>
    ELSE LET result == Split1(s, ".")
         IN  IF Len(result) # 2 THEN <<PyInt(-1), EmptyStr>>
             ELSE LET pid == Strip(result[1], Whitespace)
                  IN  IF ~IsIntLiteral(pid) THEN <<PyInt(-1), EmptyStr>>
                      ELSE <<PyInt(IntValue(pid)),
                             Strip(SplitFirst(result[2], "\t"), Whitespace)>>

\* result[key] = value on a dictionary
DictSet(d, key, value) ==
    [k \in (DOMAIN d) \cup {key} |-> IF k = key THEN value ELSE d[k]]

\* the body of the loop of get_active_screens for one line of the listing
ScreenItem_no_prefix_test(result, item, nodename) ==
    LET sp == split_session_name(item)
        pid == sp[1]
        nodepart == sp[2]
    IN  IF pid # PyInt(-1)
        THEN LET screen_name == FormatD(pid.int) \o <<".">> \o nodepart
             IN  IF nodename \notin {None, EmptyStr}
                 THEN IF nodename = session_name2node_name(nodepart)
                      THEN DictSet(result, screen_name, nodename)
                      ELSE result
                 ELSE DictSet(result, screen_name, session_name2node_name(nodepart))
        ELSE result

ScreenItem(result, item, nodename) ==
    LET sp == split_session_name(item)
        pid == sp[1]
        nodepart == sp[2]
    IN  IF pid # PyInt(-1)
        THEN LET screen_name == FormatD(pid.int) \o <<".">> \o nodepart
             IN  IF nodename \notin {None, EmptyStr}
                 THEN IF StartsWith(nodepart, <<"_">>)
                      THEN IF nodename = session_name2node_name(nodepart)
                           THEN DictSet(result, screen_name, nodename)
                           ELSE result
                      ELSE result
                 ELSE DictSet(result, screen_name, session_name2node_name(nodepart))
        ELSE result

RECURSIVE ScreenLoop(_, _, _)
ScreenLoop(result, splits, nodename) ==
    IF splits = <<>> THEN result
    ELSE ScreenLoop(ScreenItem(result, Head(splits), nodename), Tail(splits), nodename)

\* get_active_screens(nodename) when `screen -ls` printed the lines `out`
get_active_screens(out, nodename) ==
    IF out # <<>> THEN ScreenLoop(<<>>, out, nodename) ELSE <<>>

----------------------------------------------------------------------------
(* File names below LOG_PATH *)

\* LOG_PATH: $ROS_LOG_DIR/ or ~/.ros/log/, fixed when the module is loaded
LOG_PATH == <<"LOG_PATH/">>
SCREEN == <<"/usr/bin/screen">>

DerivedFile(sess, n, suffix) ==
    IF sess # None THEN LOG_PATH \o sess \o suffix
    ELSE IF n # None THEN LOG_PATH \o create_session_name(n) \o suffix
    ELSE LOG_PATH \o <<"unknown">> \o suffix

get_logfile(sess, n) == DerivedFile(sess, n, <<".log">>)
get_cfgfile(sess, n) == DerivedFile(sess, n, <<".conf">>)
get_pidfile(sess, n) == DerivedFile(sess, n, <<".pid">>)

get_ros_logfile(n) ==
    IF n # None
    THEN LOG_PATH \o Replace(Strip(n, {"/"}), <<"/">>, <<"_">>) \o <<".log">>
    ELSE EmptyStr

----------------------------------------------------------------------------
(* The screen configuration file *)

BuiltinKeys ==
    <<"LD_LIBRARY_PATH", "ROS_ETC_DIR", "ROS_MASTER_URI", "ROS_HOSTNAME",
      "ROS_NAMESPACE", "ROSCONSOLE_FORMAT", "ROSCONSOLE_CONFIG_FILE",
      "RESPAWN_DELAY", "RESPAWN_MAX", "RESPAWN_MIN_RUNTIME">>

\* _append_env(cfgfile, arg, env): the lines of the file afterwards, and the
\* value returned
append_env_any_value(f, arg, e) ==
    IF arg \in DOMAIN e
    THEN <<Append(f, <<"setenv", arg, e[arg]>>), TRUE>>
    ELSE <<f, FALSE>>

append_env(f, arg, e) ==
    IF arg \in DOMAIN e
    THEN IF e[arg] # EmptyStr
         THEN <<Append(f, <<"setenv", arg, e[arg]>>), TRUE>>
         ELSE <<f, FALSE>>
    ELSE <<f, FALSE>>

\* the loop over addkeys of get_cmd
RECURSIVE EnvLoop(_, _, _, _)
EnvLoop(f, addkeys, e, host) ==
    IF addkeys = <<>> THEN f
    ELSE LET first == append_env(f, Head(addkeys), e)
             after == IF ~first[2] THEN append_env(first[1], Head(addkeys), host)[1]
                      ELSE first[1]
         IN  EnvLoop(after, Tail(addkeys), e, host)

\* what get_cmd writes into the opened file
ConfigLines(n, e, ks, host) ==
    EnvLoop(<<<<"logfile", get_logfile(None, n)>>,
              <<"logfile flush 0">>,
              <<"defscrollback 10000">>>>,
            ks \o BuiltinKeys, e, host)

\* the command get_cmd returns
CommandLine(n) ==
    <<SCREEN, <<"-c">>, get_cfgfile(None, n), <<"-L">>, <<"-dmS">>,
      create_session_name(n)>>

\* open(filename, 'w') in LOG_PATH: the error it raises, "ok" without one
OpenResult(dir, can_open) ==
    IF dir = "missing" THEN "ENOENT"
    ELSE IF ~can_open THEN "EACCES"
    ELSE "ok"

\* os.makedirs(LOG_PATH): the error it raises, "ok" without one
MakedirsResult(dir, can_create) ==
    IF dir = "exists" THEN "EEXIST"
    ELSE IF ~can_create THEN "EACCES"
    ELSE "ok"

----------------------------------------------------------------------------
(* Removal of a node's files *)

\* os.path.isfile(path)
isfile(f, path) == path \in DOMAIN f /\ f[path] = "file"

DeletePaths_session_scheme_only(n) ==
    <<get_logfile(None, n), get_cfgfile(None, n), get_pidfile(None, n)>>

\* the files delete_log looks at, in its order
DeletePaths(n) ==
    <<get_logfile(None, n), get_cfgfile(None, n), get_pidfile(None, n),
      get_ros_logfile(n)>>

\* one `if os.path.isfile(path): os.remove(path)` of delete_log, on
\* st = <<files, removed paths, exception>>; nothing runs after an exception
DeleteStep_unchecked(st, path) ==
    IF st[3] # "none" THEN st
    ELSE IF isfile(st[1], path)
         THEN <<[st[1] EXCEPT ![path] = "none"], Append(st[2], path), "none">>
         ELSE <<st[1], st[2], "ENOENT">>

DeleteStep(st, path) ==
    IF st[3] # "none" THEN st
    ELSE IF isfile(st[1], path)
         THEN <<[st[1] EXCEPT ![path] = "none"], Append(st[2], path), "none">>
         ELSE st

RECURSIVE DeleteLoop(_, _)
DeleteLoop(st, paths) ==
    IF paths = <<>> THEN st
    ELSE DeleteLoop(DeleteStep(st, Head(paths)), Tail(paths))

\* delete_log(nodename) on the files f
delete_log(f, n) == DeleteLoop(<<f, <<>>, "none">>, DeletePaths(n))

----------------------------------------------------------------------------
(* Values of the variables a specification does not use *)

CodecIdle ==
    /\ session = EmptyStr
    /\ prev_node = None
    /\ prev_session = EmptyStr
    /\ node_name = None

SplitIdle ==
    /\ line = None
    /\ split_result = None

ScreenIdle ==
    /\ output = <<>>
    /\ screens = <<>>

CmdIdle ==
    /\ keys = <<>>
    /\ env = <<>>
    /\ environ = <<>>
    /\ logdir = "exists"
    /\ openable = TRUE
    /\ cfg = None
    /\ trace = <<>>
    /\ raised = "none"
    /\ cmd = None

CleanIdle ==
    /\ node2 = None
    /\ fs = <<>>
    /\ fs0 = <<>>
    /\ calls = 0

SessionIdle ==
    /\ registry = <<>>
    /\ next_pid = 1

----------------------------------------------------------------------------
(* The codec: a call of create_session_name and the call before it, each   *)
(* of which may be followed by session_name2node_name on the fragment it   *)
(* returned.  Only the last two calls are kept.                            *)

InitCodec ==
    /\ pc = "idle"
    /\ node = None
    /\ CodecIdle /\ SplitIdle /\ ScreenIdle /\ CmdIdle /\ CleanIdle /\ SessionIdle

CreateSessionName(n) ==
    /\ prev_node = None
    /\ pc' = "encoded"
    /\ prev_node' = node
    /\ prev_session' = session
    /\ node' = n
    /\ session' = create_session_name(n)
    /\ node_name' = None
    /\ UNCHANGED <<splitVars, screenVars, cmdVars, cleanVars, sessionVars>>

SessionName2NodeName ==
    /\ pc = "encoded"
    /\ pc' = "decoded"
    /\ node_name' = session_name2node_name(session)
    /\ UNCHANGED <<node, session, prev_node, prev_session>>
    /\ UNCHANGED <<splitVars, screenVars, cmdVars, cleanVars, sessionVars>>

NextCodec ==
    \/ \E n \in NodeArgs : CreateSessionName(n)
    \/ SessionName2NodeName

SpecCodec == InitCodec /\ [][NextCodec]_vars

\* s contains sub as a substring
Contains(s, sub) ==
    \E i \in 1..(Len(s) - Len(sub) + 1) : SubSeq(s, i, i + Len(sub) - 1) = sub

IsAbsolute(n) == n # None /\ StartsWith(n, <<"/">>)

\* C1: for every name that starts with '/', has no '//' and no '___', decoding
\* the fragment create_session_name returned gives the name back, wherever the
\* '_' characters of the name are.
C1_RoundTrip ==
    (/\ pc = "decoded"
     /\ IsAbsolute(node)
     /\ ~Contains(node, <<"/", "/">>)
     /\ ~Contains(node, <<"_", "_", "_">>))
    => node_name = node

\* C2: two different names that both start with '/' never get the same
\* session fragment.
C2_Injective ==
    (/\ pc # "idle"
     /\ IsAbsolute(prev_node)
     /\ IsAbsolute(node)
     /\ prev_node # node)
    => prev_session # session

\* C7 as stated: an absent (None) and an empty ('') name both give the empty
\* fragment, so a non-empty fragment only comes from a non-empty name.
C7_EmptyOrAbsent ==
    (pc # "idle" /\ node \in {None, EmptyStr}) => session = EmptyStr

\* C7 as amended: only the absent name (None) gives the empty fragment; the
\* empty name '' gives '_', the fragment of the root name '/', and every name
\* other than None gives a non-empty fragment.
C7_OnlyAbsentIsEmpty ==
    pc # "idle" =>
        /\ node = None => session = EmptyStr
        /\ node = EmptyStr => session = <<SLASH_SEP>>
        /\ node # None => session # EmptyStr

C7_Witness ==
    /\ pc = "encoded"
    /\ node = EmptyStr
    /\ session = <<SLASH_SEP>>
    /\ prev_node = None
    /\ prev_session = EmptyStr

----------------------------------------------------------------------------
(* split_session_name applied to one argument *)

LineChars == {"1", "0", "-", ".", "\t", "_", " "}
LineArgs == SeqsUpTo(LineChars, MaxLineLen) \cup {None}

InitSplit ==
    /\ pc = "idle"
    /\ node = None
    /\ line \in LineArgs
    /\ split_result = None
    /\ CodecIdle /\ ScreenIdle /\ CmdIdle /\ CleanIdle /\ SessionIdle

SplitSessionName ==
    /\ pc = "idle"
    /\ pc' = "split"
    /\ split_result' = split_session_name(line)
    /\ UNCHANGED <<node, line, codecVars, screenVars, cmdVars, cleanVars, sessionVars>>

NextSplit == SplitSessionName

SpecSplit == InitSplit /\ [][NextSplit]_vars

\* the inputs C3 names: None, a string without '.', a string whose text before
\* the first '.' does not parse as an integer
NotSessionInput(l) ==
    \/ l = None
    \/ Find(l, ".", 1) = 0
    \/ ~IsIntLiteral(SubSeq(l, 1, Find(l, ".", 1) - 1))

\* C3: split_session_name returns the one sentinel (-1, '') for every input
\* that is not a session line, None included.
C3_SameSentinel ==
    (pc = "split" /\ NotSessionInput(line)) => split_result = <<PyInt(-1), EmptyStr>>

----------------------------------------------------------------------------
(* get_active_screens applied to one listing *)

\* what the listing has before the '.' of a line
PidTexts == {<<"\t", "7">>, <<"\t", "0">>, <<"\t", "-", "1">>, <<"\t", "x">>}
\* session names in the listing: of the nodes /a and /a_, and of a session
\* named a that somebody else started
Fragments == {<<"_", "a">>, <<"_", "a", "_", "_">>, <<"a">>}
\* what screen appends to a session: nothing, or a tab and its state
StatusTexts == {<<>>, <<"\t", "(", "D", ")">>}
\* the lines around the sessions
OtherLines == {<<"N", "o">>, <<"1", " ", "i", "n", " ", "/", "r", ".">>}

ScreenLines ==
    {p \o <<".">> \o f \o t : p \in PidTexts, f \in Fragments, t \in StatusTexts}
        \cup OtherLines

Filters == {EmptyStr, <<"/", "a">>, <<"/", "a", "_">>, <<"a">>}

InitScreens ==
    /\ pc = "idle"
    /\ node \in Filters
    /\ output \in SeqsUpTo(ScreenLines, MaxLines)
    /\ screens = <<>>
    /\ CodecIdle /\ SplitIdle /\ CmdIdle /\ CleanIdle /\ SessionIdle

GetActiveScreens ==
    /\ pc = "idle"
    /\ pc' = "listed"
    /\ screens' = get_active_screens(output, node)
    /\ UNCHANGED <<node, output, codecVars, splitVars, cmdVars, cleanVars, sessionVars>>

NextScreens == GetActiveScreens

SpecScreens == InitScreens /\ [][NextScreens]_vars

\* the text of a line before its first '.', without the blanks around it
PidText(l) == Strip(SubSeq(l, 1, Find(l, ".", 1) - 1), Whitespace)

\* the trimmed text of a line between its first '.' and the first tab
FragmentOf(l) ==
    Strip(SplitFirst(SubSeq(l, Find(l, ".", 1) + 1, Len(l)), "\t"), Whitespace)

\* a session line as C4 has it: '<pid>.<fragment>' with pid a positive integer
IsPositiveSessionLine(l) ==
    /\ Find(l, ".", 1) # 0
    /\ IsIntLiteral(PidText(l))
    /\ IntValue(PidText(l)) > 0

\* a session line as the code has it: the pid is any integer but -1
IsSessionLine(l) ==
    /\ Find(l, ".", 1) # 0
    /\ IsIntLiteral(PidText(l))
    /\ IntValue(PidText(l)) # -1

KeyOf(l) == FormatD(IntValue(PidText(l))) \o <<".">> \o FragmentOf(l)

\* the lines of the listing that the filter lets through
Selected(IsSession(_), filter) ==
    {l \in {output[i] : i \in 1..Len(output)} :
        /\ IsSession(l)
        /\ filter # EmptyStr =>
              /\ StartsWith(FragmentOf(l), <<"_">>)
              /\ session_name2node_name(FragmentOf(l)) = filter}

\* the dictionary has exactly one entry per selected line, under its key,
\* with the decoded fragment (which is the filter when there is one)
FilterSemantics(IsSession(_)) ==
    pc = "listed" =>
        /\ DOMAIN screens = {KeyOf(l) : l \in Selected(IsSession, node)}
        /\ \A l \in Selected(IsSession, node) :
              screens[KeyOf(l)] = session_name2node_name(FragmentOf(l))

\* C4 as stated: the session lines are those whose pid is a positive integer;
\* every other line adds no entry.
C4_PositivePidSessions == FilterSemantics(IsPositiveSessionLine)

\* C4 as amended: the session lines are those whose text before the first '.'
\* parses as an integer other than -1 (0 and negative pids count, '-1' does
\* not); the filter semantics are as stated.
C4_FilterSemantics == FilterSemantics(IsSessionLine)

C4_Witness ==
    /\ pc = "listed"
    /\ node = <<"/", "a">>
    /\ Len(output) = 2
    /\ output[1] = <<"\t", "7", ".", "_", "a", "\t", "(", "D", ")">>
    /\ output[2] = <<"\t", "7", ".", "a">>
    /\ DOMAIN screens = {<<"7", ".", "_", "a">>}

----------------------------------------------------------------------------
(* get_cmd applied to one node, environment and state of LOG_PATH *)

\* names whose values differ between the runs: a built-in name, a name only
\* the caller asks for, and a name nobody asks for
ExtraKeys == {"ROS_NAMESPACE", "MY_VAR"}
EnvNames == ExtraKeys \cup {"UNRELATED"}

\* dictionaries that give some of the names the value v or the empty value
Dicts(v) == UNION {[S -> {EmptyStr, v}] : S \in SUBSET EnvNames}

InitCmd ==
    /\ pc = "idle"
    /\ node = <<"/", "a">>
    /\ keys \in SeqsUpTo(ExtraKeys, MaxKeys)
    /\ env \in Dicts(<<"caller">>)
    /\ environ \in Dicts(<<"host">>)
    /\ logdir \in {"missing", "exists"}
    /\ openable \in BOOLEAN
    /\ cfg = None
    /\ trace = <<>>
    /\ raised = "none"
    /\ cmd = None
    /\ CodecIdle /\ SplitIdle /\ ScreenIdle /\ CleanIdle /\ SessionIdle

\* get_cmd(node, env, keys); can_create is whether the parent of LOG_PATH
\* lets os.makedirs create it
GetCmd(can_create) ==
    /\ pc = "idle"
    /\ pc' = "returned"
    /\ LET open1 == OpenResult(logdir, openable)
           mkdir == MakedirsResult(logdir, can_create)
           dir2 == IF mkdir = "ok" THEN "exists" ELSE logdir
           open2 == OpenResult(dir2, openable)
           written == ConfigLines(node, env, keys, environ)
       IN  IF open1 = "ok"
           THEN /\ trace' = <<<<"open", open1>>>>
                /\ raised' = "none"
                /\ logdir' = logdir
                /\ cfg' = written
                /\ cmd' = CommandLine(node)
           ELSE IF mkdir # "ok"
           THEN /\ trace' = <<<<"open", open1>>, <<"makedirs", mkdir>>>>
                /\ raised' = mkdir
                /\ logdir' = logdir
                /\ UNCHANGED <<cfg, cmd>>
           ELSE IF open2 # "ok"
           THEN /\ trace' = <<<<"open", open1>>, <<"makedirs", mkdir>>, <<"open", open2>>>>
                /\ raised' = open2
                /\ logdir' = dir2
                /\ UNCHANGED <<cfg, cmd>>
           ELSE /\ trace' = <<<<"open", open1>>, <<"makedirs", mkdir>>, <<"open", open2>>>>
                /\ raised' = "none"
                /\ logdir' = dir2
                /\ cfg' = written
                /\ cmd' = CommandLine(node)
    /\ UNCHANGED <<node, keys, env, environ, openable>>
    /\ UNCHANGED <<codecVars, splitVars, screenVars, cleanVars, sessionVars>>

NextCmd == \E can_create \in BOOLEAN : GetCmd(can_create)

SpecCmd == InitCmd /\ [][NextCmd]_vars

\* the value forwarded for a name: the caller's when it is non-empty, else the
\* host's when that is non-empty, else none
Forwarded(name) ==
    IF name \in DOMAIN env /\ env[name] # EmptyStr THEN env[name]
    ELSE IF name \in DOMAIN environ /\ environ[name] # EmptyStr THEN environ[name]
    ELSE None

SetenvLines(name) ==
    {i \in 1..Len(cfg) : Len(cfg[i]) = 3 /\ cfg[i][1] = "setenv" /\ cfg[i][2] = name}

ToForward == keys \o BuiltinKeys
Occurrences(name) == Cardinality({i \in 1..Len(ToForward) : ToForward[i] = name})
AllEnvNames == EnvNames \cup {BuiltinKeys[i] : i \in 1..Len(BuiltinKeys)}

\* C5 as stated: every name to forward that has a value gets exactly one
\* setenv line with that value, whatever extra keys are passed; a name without
\* a value, or outside the names to forward, gets none.
C5_OneLinePerName ==
    (pc = "returned" /\ raised = "none") =>
        \A name \in AllEnvNames :
            /\ \A i \in SetenvLines(name) : cfg[i][3] = Forwarded(name)
            /\ Cardinality(SetenvLines(name)) =
                  IF Occurrences(name) > 0 /\ Forwarded(name) # None THEN 1 ELSE 0

\* C5 as amended: the names to forward form a list (the extra keys followed by
\* the built-in names); a name with a value gets one setenv line with that
\* value for each of its occurrences in the list, so exactly one when it occurs
\* once; a name without a value, or outside the list, gets none.
C5_OneLinePerOccurrence ==
    (pc = "returned" /\ raised = "none") =>
        \A name \in AllEnvNames :
            /\ \A i \in SetenvLines(name) : cfg[i][3] = Forwarded(name)
            /\ Cardinality(SetenvLines(name)) =
                  IF Forwarded(name) # None THEN Occurrences(name) ELSE 0

C5_Witness ==
    /\ pc = "returned"
    /\ raised = "none"
    /\ keys = <<"MY_VAR", "ROS_NAMESPACE">>
    /\ "MY_VAR" \in DOMAIN env /\ env["MY_VAR"] = EmptyStr
    /\ "MY_VAR" \in DOMAIN environ /\ environ["MY_VAR"] = <<"host">>
    /\ "ROS_NAMESPACE" \in DOMAIN env /\ env["ROS_NAMESPACE"] = <<"caller">>
    /\ "ROS_NAMESPACE" \in DOMAIN environ /\ environ["ROS_NAMESPACE"] = <<"host">>
    /\ Cardinality(SetenvLines("MY_VAR")) = 1
    /\ Cardinality(SetenvLines("ROS_NAMESPACE")) = 2
    /\ \A i \in SetenvLines("ROS_NAMESPACE") : cfg[i][3] = <<"caller">>

\* C8: the directory is created only after the first open failed because it is
\* missing; when the first open fails although the directory exists, no
\* directory creation is attempted and the caller gets that open's error; no
\* failing call returns a command line.
C8_SingleRecovery ==
    pc = "returned" =>
        /\ (Len(trace) > 1 => trace[1] = <<"open", "ENOENT">>)
        /\ (trace[1] = <<"open", "EACCES">> => trace = <<<<"open", "EACCES">>>> /\ raised = "EACCES")
        /\ (Len(trace) = 3 => trace[2] = <<"makedirs", "ok">>)
        /\ (raised # "none" => cmd = None)

----------------------------------------------------------------------------
(* delete_log called repeatedly for one node, nothing else touching the    *)
(* files                                                                   *)

\* the four files derived from a node name
FourPaths(n) ==
    {LOG_PATH \o create_session_name(n) \o <<".log">>,
     LOG_PATH \o create_session_name(n) \o <<".conf">>,
     LOG_PATH \o create_session_name(n) \o <<".pid">>,
     LOG_PATH \o Replace(Strip(n, {"/"}), <<"/">>, <<"_">>) \o <<".log">>}

InitClean ==
    /\ pc = "idle"
    /\ node \in Names
    /\ node2 = None
    /\ fs \in [FourPaths(node) -> {"none", "file", "dir"}]
    /\ fs0 = fs
    /\ calls = 0
    /\ CodecIdle /\ SplitIdle /\ ScreenIdle /\ SessionIdle
    /\ keys = <<>> /\ env = <<>> /\ environ = <<>> /\ logdir = "exists"
    /\ openable = TRUE /\ cfg = None /\ trace = <<>> /\ raised = "none" /\ cmd = None

DeleteLog ==
    /\ calls < MaxCalls
    /\ raised = "none"
    /\ LET done == delete_log(fs, node)
       IN  /\ fs' = done[1]
           /\ trace' = trace \o [i \in 1..Len(done[2]) |-> <<calls + 1, "remove", done[2][i]>>]
           /\ raised' = done[3]
    /\ fs0' = fs
    /\ calls' = calls + 1
    /\ pc' = "deleted"
    /\ UNCHANGED <<node, node2, keys, env, environ, logdir, openable, cfg, cmd>>
    /\ UNCHANGED <<codecVars, splitVars, screenVars, sessionVars>>

NextClean == DeleteLog

SpecClean == InitClean /\ [][NextClean]_vars

\* C6: no call of delete_log raises; after the first call none of the four
\* paths is an existing file, and a second call removes nothing.
C6_Idempotent ==
    /\ raised = "none"
    /\ calls >= 1 => \A p \in FourPaths(node) : fs[p] # "file"
    /\ calls >= 2 =>
          /\ fs = fs0
          /\ \A i \in 1..Len(trace) : trace[i][1] = 1

C6_Witness ==
    /\ calls = 2
    /\ raised = "none"
    /\ node = <<"/", "a">>
    /\ Len(trace) = 3
    /\ \E p \in FourPaths(node) : fs[p] = "dir"

----------------------------------------------------------------------------
(* delete_log for one node while a second node has all its files *)

\* names of nodes in a namespace: no private names
PairChars == {"/", "_", "a"}
PairNames == SeqsUpTo(PairChars, MaxPairLen)

InitFrame ==
    /\ pc = "idle"
    /\ node \in PairNames
    /\ node2 \in PairNames
    /\ fs = [p \in FourPaths(node) \cup FourPaths(node2) |-> "file"]
    /\ fs0 = fs
    /\ calls = 0
    /\ CodecIdle /\ SplitIdle /\ ScreenIdle /\ SessionIdle
    /\ keys = <<>> /\ env = <<>> /\ environ = <<>> /\ logdir = "exists"
    /\ openable = TRUE /\ cfg = None /\ trace = <<>> /\ raised = "none" /\ cmd = None

SpecFrame == InitFrame /\ [][NextClean]_vars

\* C10 as stated: for two different names that start with '/', every file of
\* the second node is still there after delete_log of the first.
C10_OthersUntouched ==
    (/\ calls >= 1
     /\ IsAbsolute(node)
     /\ IsAbsolute(node2)
     /\ node # node2)
    => \A p \in FourPaths(node2) : fs[p] = "file"

\* C10 as amended: delete_log(w) removes exactly the files at w's four derived
\* paths and leaves every other path unchanged; a file of another node v is
\* still there exactly when its path is none of w's four paths (the paths of
\* two different names can be equal).
C10_ExactlyOwnPaths ==
    calls >= 1 =>
        /\ \A p \in DOMAIN fs : p \notin FourPaths(node) => fs[p] = fs0[p]
        /\ \A p \in FourPaths(node) : fs[p] = "none"
        /\ \A p \in FourPaths(node2) : fs[p] = "file" <=> p \notin FourPaths(node)

C10_Witness ==
    /\ calls = 1
    /\ node = <<"/", "a">>
    /\ node2 = <<"/", "a", "/">>
    /\ fs[LOG_PATH \o <<"a", ".log">>] = "none"
    /\ fs[LOG_PATH \o <<"_", "a", "_", ".log">>] = "file"

----------------------------------------------------------------------------
(* Sessions started with the command of get_cmd, ended, and listed *)

SessNames == SeqsUpTo(NameChars, MaxSessLen) \ {EmptyStr}

InitSessions ==
    /\ pc = "idle"
    /\ node = None
    /\ registry = <<>>
    /\ next_pid = 1
    /\ CodecIdle /\ SplitIdle /\ ScreenIdle /\ CmdIdle /\ CleanIdle

\* the -dmS argument of the command get_cmd returns
SessionArg(command) == command[Len(command)]

\* the caller runs the command get_cmd(w) returned: screen starts a session
\* with the name given after -dmS; an earlier listing is out of date
StartSession(w) ==
    /\ next_pid <= MaxSessions
    /\ registry' = [p \in (DOMAIN registry) \cup {next_pid} |->
                       IF p = next_pid
                       THEN [node |-> w, fragment |-> SessionArg(CommandLine(w))]
                       ELSE registry[p]]
    /\ next_pid' = next_pid + 1
    /\ pc' = "started"
    /\ node' = None /\ output' = <<>> /\ screens' = <<>>
    /\ UNCHANGED <<codecVars, splitVars, cmdVars, cleanVars>>

\* the process in a session ends, and the session with it
ExitSession(p) ==
    /\ p \in DOMAIN registry
    /\ registry' = [q \in (DOMAIN registry) \ {p} |-> registry[q]]
    /\ pc' = "exited"
    /\ node' = None /\ output' = <<>> /\ screens' = <<>>
    /\ UNCHANGED <<next_pid, codecVars, splitVars, cmdVars, cleanVars>>

\* the session lines `screen -ls` prints for the pids from p on
RECURSIVE SessionLines(_, _)
SessionLines(reg, p) ==
    IF p >= next_pid THEN <<>>
    ELSE (IF p \in DOMAIN reg
          THEN <<<<"\t">> \o FormatD(p) \o <<".">> \o reg[p].fragment
                   \o <<"\t", "(", "D", ")">>>>
          ELSE <<>>)
         \o SessionLines(reg, p + 1)

\* what `screen -ls` prints
Listing(reg) ==
    IF DOMAIN reg = {}
    THEN <<<<"No Sockets found in /run/screen/S-ros", ".">>>>
    ELSE <<<<"There are screens on:">>>> \o SessionLines(reg, 1)
             \o <<<<"Sockets in /run/screen/S-ros", ".">>>>

ListScreens(w) ==
    /\ node' = w
    /\ output' = Listing(registry)
    /\ screens' = get_active_screens(Listing(registry), w)
    /\ pc' = "listed"
    /\ UNCHANGED <<registry, next_pid, codecVars, splitVars, cmdVars, cleanVars>>

NextSessions ==
    \/ \E w \in SessNames : StartSession(w)
    \/ \E p \in DOMAIN registry : ExitSession(p)
    \/ \E w \in SessNames : ListScreens(w)

SpecSessions == InitSessions /\ [][NextSessions]_vars

\* C9: while screen lists a session started for the node w, with or without a
\* leading '/', get_active_screens(w) has the key '<pid>.<fragment of w>'
\* mapped to w.
C9_Discoverable ==
    pc = "listed" =>
        \A p \in DOMAIN registry :
            registry[p].node = node =>
                LET key == FormatD(p) \o <<".">> \o create_session_name(node)
                IN  key \in DOMAIN screens /\ screens[key] = node

====
